---- MODULE Spec2Model ----
(***************************************************************************)
(* Model of ChppciServer (src/src/hppciServer.cpp): the two name-keyed     *)
(* factory registries, the process-wide singleton pointer, the CORBA       *)
(* bootstrap sequence (initORBandServers, startCorbaServer) and the        *)
(* request-processing entry point (processRequest).                        *)
(*                                                                         *)
(* The ORB, the naming service and the remote callers are the environment: *)
(* every fallible broker call may fail (the `fault` argument of an action  *)
(* names the call that fails in this invocation, "none" for no failure).   *)
(* ChppciServerPrivate and the HPPCI_CATCH macro are declared in headers   *)
(* that are not part of the source tree; they are modelled from the        *)
(* written specification and marked so in the comments.                    *)
(***************************************************************************)
EXTENDS Integers, Sequences, FiniteSets, TLC

\* ---------------------------------------------------------------- bounds
MaxInstances == 2
MaxExtFactories == 1
MaxPending == 2
MaxTransportThreads == 2

\* ------------------------------------------------------------- constants
NULL == 0

KD_OK == "KD_OK"
KD_ERROR == "KD_ERROR"
FALLTHROUGH == "fallthrough"

Instances == 1..MaxInstances

BuiltinNames == {"linear", "rs", "flic"}
Names == BuiltinNames \cup {"", "custom"}

Registries == {"steering", "distance"}

\* Heap pointers to factories. NullFactory is the null pointer, ExtFactory an
\* object allocated by an external caller, NewFactory an object allocated by
\* `new` inside the init functions of instance `i`.
NullFactory == [kind |-> "null", id |-> 0, reg |-> "", cls |-> ""]
ExtFactory(reg, k) == [kind |-> "ext", id |-> k, reg |-> reg, cls |-> ""]
NewFactory(i, reg, cls) == [kind |-> "new", id |-> i, reg |-> reg, cls |-> cls]

ExtFactories(reg) == {ExtFactory(reg, k) : k \in 1..MaxExtFactories}
FactoryArgs(reg) == ExtFactories(reg) \cup {NullFactory}
AllFactories ==
  {NullFactory}
    \cup UNION {ExtFactories(reg) : reg \in Registries}
    \cup {NewFactory(i, reg, cls) : i \in Instances, reg \in Registries, cls \in BuiltinNames}

Servants == {"robotServant", "obstacleServant", "problemServant"}
ObjectNames == {"Robot", "Obstacle", "Problem"}

TransportThreads == 1..MaxTransportThreads
MainThread == 0
Threads == {MainThread} \cup TransportThreads

\* Failures the environment can inject into one call of initORBandServers.
InitFaults ==
  {"ORB_init_nil", "ORB_init", "resolve_initial_references", "create_thread_policy",
   "create_POA", "destroy", "activate_robotServant", "activate_obstacleServant",
   "activate_problemServant"}

\* Failures the environment can inject into one call of startCorbaServer.
StartFaults ==
  {"_this", "createHppContext", "bind_Robot", "bind_Obstacle", "bind_Problem",
   "activate"}

\* Failures the environment can inject into one unit of dispatch work:
\* the servant method raises (the ORB answers the remote caller) or the ORB
\* call itself raises a CORBA exception into its caller.
WorkFaults == {"servant_exception", "orb_exception"}

\* What a build can do on undefined behaviour.
UBOutcomes == {"crash", "continue"}

VARIABLES
  s_hppciServer,                  \* static ChppciServer* ChppciServer::s_hppciServer
  life,                           \* lifetime of each ChppciServer object
  attPrivate,                     \* ChppciServerPrivate of each object
  attMapSteeringMethodFactory,    \* std::map<std::string, CkwsPlusSteeringMethodFactory*>
  attMapDistanceFunctionFactory,  \* std::map<std::string, CkwsPlusDistanceFactory*>
  deleted,                        \* number of `delete` executed on each factory
  namingDirectory,                \* external naming service: context and bindings
  pending,                        \* remote calls queued by the transport layer
  executing,                      \* threads currently inside a servant method
  pc,                             \* where the host thread is
  workUnits,                      \* units of dispatch work done by the current processRequest
  workFault,                      \* a fault was raised during the current processRequest
  event,                          \* kind of the last step: call, arrive, begin, end
  call,                           \* the operation invoked last and its arguments
  ret,                            \* what that operation returned
  trace,                          \* the broker sub-steps that operation executed, in order
  initStatus,                     \* status initORBandServers returned to the constructor
  bootFailed,                     \* a bootstrap step of this object has failed
  crashed                         \* the process has been terminated

vars ==
  <<s_hppciServer, life, attPrivate, attMapSteeringMethodFactory,
    attMapDistanceFunctionFactory, deleted, namingDirectory, pending, executing, pc,
    workUnits, workFault, event, call, ret, trace, initStatus, bootFailed, crashed>>

registryVars == <<attMapSteeringMethodFactory, attMapDistanceFunctionFactory, deleted>>
brokerVars == <<attPrivate, namingDirectory, pending, executing, pc, workUnits, workFault>>
ghostVars == <<initStatus, bootFailed>>

\* ------------------------------------------------------------ std::map
EmptyMap == [n \in {} |-> NullFactory]
MapCount(m, k) == IF k \in DOMAIN m THEN 1 ELSE 0
\* operator[] followed by assignment
MapAssign(m, k, v) == [n \in (DOMAIN m) \cup {k} |-> IF n = k THEN v ELSE m[n]]
\* operator[] used for reading: inserts a value-initialised (null) entry when absent
MapIndex(m, k) == IF k \in DOMAIN m THEN m ELSE MapAssign(m, k, NullFactory)
MapValues(m) == {m[n] : n \in DOMAIN m}

\* --------------------------------------------------- ChppciServerPrivate
UnsetServant == [state |-> "unset", refs |-> 0]
NoPrivate ==
  [orb |-> "nil", poa |-> "nil", policy |-> "none", manager |-> "none",
   servant |-> [s \in Servants |-> UnsetServant]]

Call(op, self, name, factory, flag, fault) ==
  [op |-> op, self |-> self, name |-> name, factory |-> factory, flag |-> flag,
   fault |-> fault]

\* ------------------------------------------------ steering method factories
\* Faulty variant: the third built-in is stored under a misspelt key.
initMapSteeringMethodFactory_misspelt(i, m) ==
  MapAssign(
    MapAssign(
      MapAssign(m, "linear", NewFactory(i, "steering", "linear")),
      "rs", NewFactory(i, "steering", "rs")),
    "custom", NewFactory(i, "steering", "flic"))

\* The three `new` expressions of initMapSteeringMethodFactory, by key.
initMapSteeringMethodFactory(i, m) ==
  MapAssign(
    MapAssign(
      MapAssign(m, "linear", NewFactory(i, "steering", "linear")),
      "rs", NewFactory(i, "steering", "rs")),
    "flic", NewFactory(i, "steering", "flic"))

\* Number of `delete factory` statements the loop executes on pointer f.
DeletesOf(m, f) == Cardinality({n \in DOMAIN m : m[n] = f})

\* The loop of destroySteeringMethodFactories applied to the delete counters.
\* `delete` of a null pointer has no effect.
destroySteeringMethodFactories(m, d) ==
  [f \in AllFactories |-> IF f = NullFactory THEN d[f] ELSE d[f] + DeletesOf(m, f)]

destroyDistanceFunctionFactories(m, d) ==
  [f \in AllFactories |-> IF f = NullFactory THEN d[f] ELSE d[f] + DeletesOf(m, f)]

\* A second delete of the same object is undefined behaviour.
DoubleDelete(d) == \E f \in AllFactories : d[f] > 1

steeringMethodFactoryAlreadySet(i, inName) ==
  IF MapCount(attMapSteeringMethodFactory[i], inName) = 1 THEN TRUE ELSE FALSE

\* Faulty variant: the duplicate check is dropped, the assignment overwrites.
addSteeringMethodFactory_overwrite(i, inName, inSteeringMethodFactory) ==
  /\ attMapSteeringMethodFactory' =
       [attMapSteeringMethodFactory EXCEPT
          ![i] = MapAssign(@, inName, inSteeringMethodFactory)]
  /\ ret' = "true"

addSteeringMethodFactory(i, inName, inSteeringMethodFactory) ==
  IF steeringMethodFactoryAlreadySet(i, inName)
    THEN /\ ret' = "false"
         /\ UNCHANGED attMapSteeringMethodFactory
    ELSE /\ attMapSteeringMethodFactory' =
              [attMapSteeringMethodFactory EXCEPT
                 ![i] = MapAssign(@, inName, inSteeringMethodFactory)]
         /\ ret' = "true"

\* factory->makeSteeringMethod(inOriented) / factory->makeDistance(inOriented):
\* a factory object produces a strategy for either orientation; a call through
\* a null pointer is undefined behaviour.
MakeResults(factory, inOriented) ==
  IF factory = NullFactory THEN {"crash", "absent", "strategy"} ELSE {"strategy"}

\* Faulty variant: the map is indexed without the membership test, which
\* inserts a null entry for a name that is not registered.
createSteeringMethod_unguarded(i, inName, inOriented) ==
  /\ attMapSteeringMethodFactory' =
       [attMapSteeringMethodFactory EXCEPT ![i] = MapIndex(@, inName)]
  /\ ret' \in MakeResults(MapIndex(attMapSteeringMethodFactory[i], inName)[inName],
                          inOriented)

createSteeringMethod(i, inName, inOriented) ==
  IF steeringMethodFactoryAlreadySet(i, inName)
    THEN /\ attMapSteeringMethodFactory' =
              [attMapSteeringMethodFactory EXCEPT ![i] = MapIndex(@, inName)]
         /\ ret' \in MakeResults(attMapSteeringMethodFactory[i][inName], inOriented)
    ELSE /\ ret' = "absent"
         /\ UNCHANGED attMapSteeringMethodFactory

\* ----------------------------------------------- distance function factories
initMapDistanceFunctionFactory(i, m) ==
  MapAssign(
    MapAssign(
      MapAssign(m, "linear", NewFactory(i, "distance", "linear")),
      "rs", NewFactory(i, "distance", "rs")),
    "flic", NewFactory(i, "distance", "flic"))

distanceFactoryAlreadySet(i, inName) ==
  IF MapCount(attMapDistanceFunctionFactory[i], inName) = 1 THEN TRUE ELSE FALSE

\* Faulty variant: the duplicate check consults the steering-method registry.
addDistanceFactory_steering_check(i, inName, inDistanceFunctionFactory) ==
  IF steeringMethodFactoryAlreadySet(i, inName)
    THEN /\ ret' = "false"
         /\ UNCHANGED attMapDistanceFunctionFactory
    ELSE /\ attMapDistanceFunctionFactory' =
              [attMapDistanceFunctionFactory EXCEPT
                 ![i] = MapAssign(@, inName, inDistanceFunctionFactory)]
         /\ ret' = "true"

addDistanceFactory(i, inName, inDistanceFunctionFactory) ==
  IF distanceFactoryAlreadySet(i, inName)
    THEN /\ ret' = "false"
         /\ UNCHANGED attMapDistanceFunctionFactory
    ELSE /\ attMapDistanceFunctionFactory' =
              [attMapDistanceFunctionFactory EXCEPT
                 ![i] = MapAssign(@, inName, inDistanceFunctionFactory)]
         /\ ret' = "true"

createDistanceFunction(i, inName, inOriented) ==
  IF distanceFactoryAlreadySet(i, inName)
    THEN /\ attMapDistanceFunctionFactory' =
              [attMapDistanceFunctionFactory EXCEPT ![i] = MapIndex(@, inName)]
         /\ ret' \in MakeResults(attMapDistanceFunctionFactory[i][inName], inOriented)
    ELSE /\ ret' = "absent"
         /\ UNCHANGED attMapDistanceFunctionFactory

\* ------------------------------------------------ CORBA server initialization
\* HPPCI_CATCH(msg, ret) closes a try block (hppciExceptionHandlingMacros.h, not
\* in the source tree; modelled from the written specification: "catch, log
\* with a step-specific message, return an error code"). When the block threw,
\* the enclosing function returns ret; otherwise control falls through.
HPPCI_CATCH(thrown, status) == IF thrown THEN status ELSE FALLTHROUGH

\* The thread policy requested from the root POA.
create_thread_policy_orb_ctrl == "ORB_CTRL_MODEL"

create_thread_policy == "MAIN_THREAD_MODEL"

ActiveServant(adapter) == [state |-> adapter, refs |-> 2]

\* ChppciServerPrivate::createAndActivateServers (not in the source tree;
\* modelled from the written specification: the service objects robot,
\* obstacle and problem are constructed and activated inside the serving
\* domain attPrivate->poa, and the hook returns success or failure). A servant
\* is created with one reference and the adapter takes a second one.
createAndActivateServers(p, fault) ==
  LET p1 == [p EXCEPT !.servant["robotServant"] = ActiveServant(p.poa)]
      p2 == [p1 EXCEPT !.servant["obstacleServant"] = ActiveServant(p.poa)]
      p3 == [p2 EXCEPT !.servant["problemServant"] = ActiveServant(p.poa)]
  IN  IF fault = "activate_robotServant" THEN [status |-> KD_ERROR, priv |-> p]
      ELSE IF fault = "activate_obstacleServant" THEN [status |-> KD_ERROR, priv |-> p1]
      ELSE IF fault = "activate_problemServant" THEN [status |-> KD_ERROR, priv |-> p2]
      ELSE [status |-> KD_OK, priv |-> p3]

InitResult(status, steps, p) == [status |-> status, trace |-> steps, priv |-> p]

\* Faulty variant: the handler of the last try block logs but does not return.
initORBandServers_no_return(p, fault) ==
  LET up == [p EXCEPT !.orb = "up"]
      dom == [up EXCEPT !.poa = "child", !.policy = create_thread_policy,
                        !.manager = "holding"]
      act == createAndActivateServers(dom, fault)
      all == <<"ORB_init", "resolve_initial_references", "create_thread_policy",
               "create_POA", "destroy", "createAndActivateServers">>
  IN  IF fault \in {"ORB_init_nil", "ORB_init"}
        THEN InitResult(KD_ERROR, SubSeq(all, 1, 1), p)
      ELSE IF fault = "resolve_initial_references"
        THEN InitResult(KD_ERROR, SubSeq(all, 1, 2), up)
      ELSE IF fault = "create_thread_policy"
        THEN InitResult(KD_ERROR, SubSeq(all, 1, 3), up)
      ELSE IF fault = "create_POA"
        THEN InitResult(KD_ERROR, SubSeq(all, 1, 4), up)
      ELSE InitResult(act.status, all, act.priv)

\* initORBandServers(argc, argv) on the private part p; `fault` names the
\* broker call that fails. Returns the status, the sub-steps executed and the
\* private part as left behind.
initORBandServers(p, fault) ==
  LET s1 == <<"ORB_init">>
      s2 == Append(s1, "resolve_initial_references")
      s3 == Append(s2, "create_thread_policy")
      s4 == Append(s3, "create_POA")
      s5 == Append(s4, "destroy")
      s6 == Append(s5, "createAndActivateServers")
      \* attPrivate->orb = CORBA::ORB_init(argc, argv)
      up == [p EXCEPT !.orb = "up"]
      \* attPrivate->poa = rootPoa->create_POA("child", POAManager::_nil(), policyList)
      dom == [up EXCEPT !.poa = "child", !.policy = create_thread_policy,
                        !.manager = "holding"]
      act == createAndActivateServers(dom, fault)
  IN  IF fault = "ORB_init_nil"
        THEN InitResult(KD_ERROR, s1, p)
      ELSE IF HPPCI_CATCH(fault = "ORB_init", KD_ERROR) # FALLTHROUGH
        THEN InitResult(HPPCI_CATCH(fault = "ORB_init", KD_ERROR), s1, p)
      ELSE IF HPPCI_CATCH(fault = "resolve_initial_references", KD_ERROR) # FALLTHROUGH
        THEN InitResult(HPPCI_CATCH(fault = "resolve_initial_references", KD_ERROR), s2, up)
      ELSE IF HPPCI_CATCH(fault = "create_thread_policy", KD_ERROR) # FALLTHROUGH
        THEN InitResult(HPPCI_CATCH(fault = "create_thread_policy", KD_ERROR), s3, up)
      ELSE IF HPPCI_CATCH(fault = "create_POA", KD_ERROR) # FALLTHROUGH
        THEN InitResult(HPPCI_CATCH(fault = "create_POA", KD_ERROR), s4, up)
      ELSE IF HPPCI_CATCH(fault = "destroy", KD_ERROR) # FALLTHROUGH
        THEN InitResult(HPPCI_CATCH(fault = "destroy", KD_ERROR), s5, dom)
      ELSE InitResult(act.status, s6, act.priv)

\* ------------------------------------------------------------ construction
Init ==
  /\ s_hppciServer = NULL
  /\ life = [i \in Instances |-> "unborn"]
  /\ attPrivate = [i \in Instances |-> NoPrivate]
  /\ attMapSteeringMethodFactory = [i \in Instances |-> EmptyMap]
  /\ attMapDistanceFunctionFactory = [i \in Instances |-> EmptyMap]
  /\ deleted = [f \in AllFactories |-> 0]
  /\ namingDirectory = [context |-> FALSE, bound |-> {}]
  /\ pending = 0
  /\ executing = {}
  /\ pc = "host"
  /\ workUnits = 0
  /\ workFault = "none"
  /\ event = "none"
  /\ call = Call("none", NULL, "", NullFactory, FALSE, "none")
  /\ ret = "none"
  /\ trace = <<>>
  /\ initStatus = [i \in Instances |-> "none"]
  /\ bootFailed = [i \in Instances |-> FALSE]
  /\ crashed = FALSE

HostReady == pc = "host" /\ ~crashed

\* ChppciServer::ChppciServer(inHppPlanner, argc, argv) on the object i.
ChppciServer_ctor(i, fault) ==
  LET r == initORBandServers(NoPrivate, fault) IN
  /\ HostReady
  /\ life[i] = "unborn"
  /\ s_hppciServer' = i
  /\ attPrivate' = [attPrivate EXCEPT ![i] = r.priv]
  /\ attMapSteeringMethodFactory' =
       [attMapSteeringMethodFactory EXCEPT ![i] = initMapSteeringMethodFactory(i, EmptyMap)]
  /\ attMapDistanceFunctionFactory' =
       [attMapDistanceFunctionFactory EXCEPT
          ![i] = initMapDistanceFunctionFactory(i, EmptyMap)]
  /\ life' = [life EXCEPT ![i] = "alive"]
  /\ initStatus' = [initStatus EXCEPT ![i] = r.status]
  /\ bootFailed' = [bootFailed EXCEPT ![i] = (r.status # KD_OK)]
  /\ event' = "call"
  /\ call' = Call("ChppciServer", i, "", NullFactory, FALSE, fault)
  /\ ret' = "void"
  /\ trace' = r.trace
  /\ UNCHANGED <<deleted, namingDirectory, pending, executing, pc, workUnits, workFault,
                 crashed>>

\* ------------------------------------------------------------- destruction
\* ChppciServerPrivate::deactivateAndDestroyServers (not in the source tree;
\* modelled from the written specification: every service object still
\* tracked is deactivated and destroyed).
deactivateAndDestroyServers(p) ==
  [p EXCEPT !.servant =
     [s \in Servants |->
        IF p.servant[s].state = "unset" THEN p.servant[s]
        ELSE [state |-> "destroyed", refs |-> 0]]]

\* Faulty variant: the destructor leaves the class-level pointer as it is.
ChppciServer_dtor_keep_pointer(i, ub) ==
  /\ HostReady
  /\ life[i] = "alive"
  /\ ub = "continue"
  /\ event' = "call"
  /\ call' = Call("~ChppciServer", i, "", NullFactory, FALSE, ub)
  /\ attPrivate' = [attPrivate EXCEPT ![i] = NoPrivate]
  /\ deleted' = destroySteeringMethodFactories(attMapSteeringMethodFactory[i], deleted)
  /\ life' = [life EXCEPT ![i] = "destroyed"]
  /\ pending' = 0
  /\ trace' = <<"deactivateAndDestroyServers", "shutdown", "delete attPrivate",
                "destroySteeringMethodFactories">>
  /\ ret' = "void"
  /\ UNCHANGED <<s_hppciServer, attMapSteeringMethodFactory,
                 attMapDistanceFunctionFactory, namingDirectory, executing, pc,
                 workUnits, workFault, initStatus, bootFailed, crashed>>

\* ChppciServer::~ChppciServer() on the object i. attPrivate->orb->shutdown(0)
\* through a nil handle and a second delete of one factory are undefined
\* behaviour: `ub` is what the build does there.
ChppciServer_dtor(i, ub) ==
  LET nilOrb == attPrivate[i].orb = "nil"
      d == destroySteeringMethodFactories(attMapSteeringMethodFactory[i], deleted)
  IN
  /\ HostReady
  /\ life[i] = "alive"
  /\ ub = "crash" => (nilOrb \/ DoubleDelete(d))
  /\ event' = "call"
  /\ call' = Call("~ChppciServer", i, "", NullFactory, FALSE, ub)
  /\ IF nilOrb /\ ub = "crash"
       THEN /\ attPrivate' =
                 [attPrivate EXCEPT ![i] = deactivateAndDestroyServers(@)]
            /\ trace' = <<"deactivateAndDestroyServers", "shutdown">>
            /\ crashed' = TRUE
            /\ ret' = "crash"
            /\ UNCHANGED <<s_hppciServer, life, deleted, pending>>
       ELSE /\ attPrivate' = [attPrivate EXCEPT ![i] = NoPrivate]
            /\ s_hppciServer' = NULL
            /\ deleted' = d
            /\ life' = [life EXCEPT ![i] = "destroyed"]
            /\ pending' = IF nilOrb THEN pending ELSE 0
            /\ trace' = <<"deactivateAndDestroyServers", "shutdown", "delete attPrivate",
                          "destroySteeringMethodFactories">>
            /\ crashed' = (DoubleDelete(d) /\ ub = "crash")
            /\ ret' = IF DoubleDelete(d) /\ ub = "crash" THEN "crash" ELSE "void"
  /\ UNCHANGED <<attMapSteeringMethodFactory, attMapDistanceFunctionFactory,
                 namingDirectory, executing, pc, workUnits, workFault, initStatus,
                 bootFailed>>

\* ChppciServer::getInstance()
getInstance == s_hppciServer

GetInstance ==
  /\ HostReady
  /\ event' = "call"
  /\ call' = Call("getInstance", getInstance, "", NullFactory, FALSE, "none")
  /\ ret' = IF getInstance = NULL THEN "absent" ELSE "instance"
  /\ trace' = <<>>
  /\ UNCHANGED <<s_hppciServer, life, registryVars, brokerVars, ghostVars, crashed>>

\* ------------------------------------------------ calls on the registries
AddSteeringMethodFactory(i, inName, f) ==
  /\ HostReady
  /\ life[i] = "alive"
  /\ addSteeringMethodFactory(i, inName, f)
  /\ event' = "call"
  /\ call' = Call("addSteeringMethodFactory", i, inName, f, FALSE, "none")
  /\ trace' = <<>>
  /\ UNCHANGED <<s_hppciServer, life, attMapDistanceFunctionFactory, deleted,
                 brokerVars, ghostVars, crashed>>

AddDistanceFactory(i, inName, f) ==
  /\ HostReady
  /\ life[i] = "alive"
  /\ addDistanceFactory(i, inName, f)
  /\ event' = "call"
  /\ call' = Call("addDistanceFactory", i, inName, f, FALSE, "none")
  /\ trace' = <<>>
  /\ UNCHANGED <<s_hppciServer, life, attMapSteeringMethodFactory, deleted,
                 brokerVars, ghostVars, crashed>>

\* The host asks whether a name is registered.
SteeringMethodFactoryAlreadySet(i, inName) ==
  /\ HostReady
  /\ life[i] = "alive"
  /\ ret' = IF steeringMethodFactoryAlreadySet(i, inName) THEN "true" ELSE "false"
  /\ event' = "call"
  /\ call' = Call("steeringMethodFactoryAlreadySet", i, inName, NullFactory, FALSE, "none")
  /\ trace' = <<>>
  /\ UNCHANGED <<s_hppciServer, life, registryVars, brokerVars, ghostVars, crashed>>

DistanceFactoryAlreadySet(i, inName) ==
  /\ HostReady
  /\ life[i] = "alive"
  /\ ret' = IF distanceFactoryAlreadySet(i, inName) THEN "true" ELSE "false"
  /\ event' = "call"
  /\ call' = Call("distanceFactoryAlreadySet", i, inName, NullFactory, FALSE, "none")
  /\ trace' = <<>>
  /\ UNCHANGED <<s_hppciServer, life, registryVars, brokerVars, ghostVars, crashed>>

CreateSteeringMethod(i, inName, inOriented) ==
  /\ HostReady
  /\ life[i] = "alive"
  /\ createSteeringMethod(i, inName, inOriented)
  /\ crashed' = (ret' = "crash")
  /\ event' = "call"
  /\ call' = Call("createSteeringMethod", i, inName, NullFactory, inOriented, "none")
  /\ trace' = <<>>
  /\ UNCHANGED <<s_hppciServer, life, attMapDistanceFunctionFactory, deleted,
                 brokerVars, ghostVars>>

CreateDistanceFunction(i, inName, inOriented) ==
  /\ HostReady
  /\ life[i] = "alive"
  /\ createDistanceFunction(i, inName, inOriented)
  /\ crashed' = (ret' = "crash")
  /\ event' = "call"
  /\ call' = Call("createDistanceFunction", i, inName, NullFactory, inOriented, "none")
  /\ trace' = <<>>
  /\ UNCHANGED <<s_hppciServer, life, attMapSteeringMethodFactory, deleted,
                 brokerVars, ghostVars>>

\* ----------------------------------------------------------- startCorbaServer
\* ChppciServerPrivate::createHppContext (not in the source tree; modelled
\* from the written specification: the naming context is created or resolved,
\* the hook returns success or failure).
createHppContext(nd, fault) ==
  IF fault = "createHppContext" THEN [ok |-> FALSE, nd |-> nd]
  ELSE [ok |-> TRUE, nd |-> [nd EXCEPT !.context = TRUE]]

\* ChppciServerPrivate::bindObjectToName (not in the source tree; modelled
\* from the written specification: binds the reference under {id, "Object"},
\* replacing an existing entry; returns success or failure).
bindObjectToName(nd, id, fault) ==
  IF fault = id THEN [ok |-> FALSE, nd |-> nd]
  ELSE [ok |-> TRUE, nd |-> [nd EXCEPT !.bound = @ \cup {id}]]

\* servant->_remove_ref(): the object is deleted when the count reaches zero.
remove_ref(p, s) ==
  [p EXCEPT !.servant[s].refs = IF @ > 0 THEN @ - 1 ELSE 0]

StartResult(status, steps, p, nd) ==
  [status |-> status, trace |-> steps, priv |-> p, nd |-> nd]

\* Faulty variant: the local reference is released before the result of the
\* bind is looked at.
startCorbaServer_release_first(p, nd, fault) ==
  LET s1 == <<"_this">>
      s2 == Append(s1, "createHppContext")
      s3 == Append(s2, "bind_Robot")
      s4 == Append(s3, "bind_Obstacle")
      s5 == Append(s4, "bind_Problem")
      s6 == Append(s5, "activate")
      ctx == createHppContext(nd, fault)
      b1 == bindObjectToName(ctx.nd, "Robot", IF fault = "bind_Robot" THEN "Robot" ELSE "")
      p1 == remove_ref(p, "robotServant")
      b2 == bindObjectToName(b1.nd, "Obstacle",
                             IF fault = "bind_Obstacle" THEN "Obstacle" ELSE "")
      p2 == remove_ref(p1, "obstacleServant")
      b3 == bindObjectToName(b2.nd, "Problem",
                             IF fault = "bind_Problem" THEN "Problem" ELSE "")
      p3 == remove_ref(p2, "problemServant")
      p4 == [p3 EXCEPT !.manager = "active"]
  IN  IF fault = "_this" THEN StartResult(KD_ERROR, s1, p, nd)
      ELSE IF ~ctx.ok THEN StartResult(KD_ERROR, s2, p, nd)
      ELSE IF ~b1.ok THEN StartResult(KD_ERROR, s3, p1, ctx.nd)
      ELSE IF ~b2.ok THEN StartResult(KD_ERROR, s4, p2, b1.nd)
      ELSE IF ~b3.ok THEN StartResult(KD_ERROR, s5, p3, b2.nd)
      ELSE IF fault = "activate" THEN StartResult(KD_ERROR, s6, p3, b3.nd)
      ELSE StartResult(KD_OK, s6, p4, b3.nd)

\* The body of startCorbaServer on the private part p and the naming
\* directory nd; `fault` names the call that fails.
startCorbaServer(p, nd, fault) ==
  LET s1 == <<"_this">>
      s2 == Append(s1, "createHppContext")
      s3 == Append(s2, "bind_Robot")
      s4 == Append(s3, "bind_Obstacle")
      s5 == Append(s4, "bind_Problem")
      s6 == Append(s5, "activate")
      ctx == createHppContext(nd, fault)
      b1 == bindObjectToName(ctx.nd, "Robot", IF fault = "bind_Robot" THEN "Robot" ELSE "")
      p1 == remove_ref(p, "robotServant")
      b2 == bindObjectToName(b1.nd, "Obstacle",
                             IF fault = "bind_Obstacle" THEN "Obstacle" ELSE "")
      p2 == remove_ref(p1, "obstacleServant")
      b3 == bindObjectToName(b2.nd, "Problem",
                             IF fault = "bind_Problem" THEN "Problem" ELSE "")
      p3 == remove_ref(p2, "problemServant")
      \* pman = attPrivate->poa->the_POAManager(); pman->activate()
      p4 == [p3 EXCEPT !.manager = "active"]
  IN  IF fault = "_this" THEN StartResult(HPPCI_CATCH(TRUE, KD_ERROR), s1, p, nd)
      ELSE IF ~ctx.ok THEN StartResult(KD_ERROR, s2, p, nd)
      ELSE IF ~b1.ok THEN StartResult(KD_ERROR, s3, p, ctx.nd)
      ELSE IF ~b2.ok THEN StartResult(KD_ERROR, s4, p1, b1.nd)
      ELSE IF ~b3.ok THEN StartResult(KD_ERROR, s5, p2, b2.nd)
      ELSE IF HPPCI_CATCH(fault = "activate", KD_ERROR) # FALLTHROUGH
        THEN StartResult(HPPCI_CATCH(fault = "activate", KD_ERROR), s6, p3, b3.nd)
      ELSE StartResult(KD_OK, s6, p4, b3.nd)

\* attPrivate->robotServant->_this() through a pointer that was never set, or
\* to a servant already deleted, is undefined behaviour.
UnsetServants(p) == \E s \in Servants : p.servant[s].state = "unset"
FreedServants(p) == \E s \in Servants : p.servant[s].state # "unset" /\ p.servant[s].refs = 0

\* ChppciServer::startCorbaServer() on the object i.
StartCorbaServer(i, fault, ub) ==
  LET p == attPrivate[i]
      undefined == UnsetServants(p) \/ FreedServants(p)
      r == IF UnsetServants(p)
             THEN StartResult(KD_ERROR, <<"_this">>, p, namingDirectory)
             ELSE startCorbaServer(p, namingDirectory, fault)
  IN
  /\ HostReady
  /\ life[i] = "alive"
  /\ ub = "crash" => undefined
  /\ UnsetServants(p) => fault = "none"
  \* the adapters of an ORB that was shut down are gone: _this() raises
  /\ (~UnsetServants(p) /\ p.orb = "down") => fault = "_this"
  /\ event' = "call"
  /\ call' = Call("startCorbaServer", i, "", NullFactory, FALSE, fault)
  /\ IF undefined /\ ub = "crash"
       THEN /\ crashed' = TRUE
            /\ ret' = "crash"
            /\ trace' = <<"_this">>
            /\ UNCHANGED <<attPrivate, namingDirectory, bootFailed>>
       ELSE /\ attPrivate' = [attPrivate EXCEPT ![i] = r.priv]
            /\ namingDirectory' = r.nd
            /\ ret' = r.status
            /\ trace' = r.trace
            /\ bootFailed' = [bootFailed EXCEPT ![i] = @ \/ (r.status # KD_OK)]
            /\ UNCHANGED crashed
  /\ UNCHANGED <<s_hppciServer, life, registryVars, pending, executing, pc, workUnits,
                 workFault, initStatus>>

\* The Coordinator is Serving: the adapter manager of its domain dispatches.
Serving(i) == life[i] = "alive" /\ attPrivate[i].manager = "active"

\* ------------------------------------------------------------- processRequest
\* orb->work_pending(): there is work for the calling (main) thread.
work_pending(i) ==
  /\ pending > 0
  /\ attPrivate[i].manager = "active"
  /\ attPrivate[i].policy = "MAIN_THREAD_MODEL"
  /\ MainThread \notin executing

\* Faulty variant: the mode selector is inverted.
processRequest_inverted(i, loop) ==
  IF ~loop
    THEN /\ pc' = "orb_run"
         /\ ret' = "none"
         /\ workUnits' = 0
         /\ UNCHANGED <<pending, executing>>
    ELSE IF work_pending(i)
      THEN /\ pc' = "perform_work"
           /\ ret' = "none"
           /\ pending' = pending - 1
           /\ executing' = executing \cup {MainThread}
           /\ workUnits' = 1
      ELSE /\ pc' = "host"
           /\ ret' = "0"
           /\ workUnits' = 0
           /\ UNCHANGED <<pending, executing>>

\* The body of processRequest(loop) up to the point where the host thread is
\* inside the ORB (orb->run(), orb->perform_work()) or has returned 0.
processRequest(i, loop) ==
  IF loop
    THEN /\ pc' = "orb_run"
         /\ ret' = "none"
         /\ workUnits' = 0
         /\ UNCHANGED <<pending, executing>>
    ELSE IF work_pending(i)
      THEN /\ pc' = "perform_work"
           /\ ret' = "none"
           /\ pending' = pending - 1
           /\ executing' = executing \cup {MainThread}
           /\ workUnits' = 1
      ELSE /\ pc' = "host"
           /\ ret' = "0"
           /\ workUnits' = 0
           /\ UNCHANGED <<pending, executing>>

\* ChppciServer::processRequest(loop) on the object i. A call through a nil
\* attPrivate->orb is undefined behaviour.
ProcessRequest(i, loop, ub) ==
  LET nilOrb == attPrivate[i].orb = "nil" IN
  /\ HostReady
  /\ life[i] = "alive"
  /\ ub = "crash" => nilOrb
  /\ event' = "call"
  /\ call' = Call("processRequest", i, "", NullFactory, loop, ub)
  /\ trace' = <<>>
  /\ workFault' = "none"
  /\ IF nilOrb
       THEN /\ crashed' = (ub = "crash")
            /\ ret' = IF ub = "crash" THEN "crash" ELSE "0"
            /\ UNCHANGED <<pc, pending, executing, workUnits>>
       ELSE IF attPrivate[i].orb = "down"
         \* run() and work_pending() on an ORB that was shut down raise
         \* BAD_INV_ORDER, which leaves processRequest
         THEN /\ ret' = "exception"
              /\ UNCHANGED <<pc, pending, executing, workUnits, crashed>>
         ELSE /\ processRequest(i, loop)
              /\ UNCHANGED crashed
  /\ UNCHANGED <<s_hppciServer, life, registryVars, attPrivate, namingDirectory,
                 ghostVars>>

\* A remote caller that holds a published reference sends a call; the
\* transport layer queues it.
Arrive ==
  /\ ~crashed
  /\ pending < MaxPending
  /\ namingDirectory.bound # {}
  /\ \E i \in Instances : life[i] = "alive" /\ attPrivate[i].orb = "up"
  /\ pending' = pending + 1
  /\ event' = "arrive"
  /\ UNCHANGED <<s_hppciServer, life, registryVars, attPrivate, namingDirectory,
                 executing, pc, workUnits, workFault, call, ret, trace, ghostVars,
                 crashed>>

\* The ORB starts the servant method of a queued call on thread t. Under
\* MAIN_THREAD_MODEL only the main thread does, and only while it is inside
\* orb->run(); under ORB_CTRL_MODEL any transport thread does.
BeginUpcall(i, t) ==
  /\ ~crashed
  /\ Serving(i)
  /\ pending > 0
  /\ t \notin executing
  /\ IF attPrivate[i].policy = "MAIN_THREAD_MODEL"
       THEN t = MainThread /\ pc = "orb_run" /\ call.self = i
       ELSE t \in TransportThreads
  /\ pending' = pending - 1
  /\ executing' = executing \cup {t}
  /\ event' = "begin"
  /\ UNCHANGED <<s_hppciServer, life, registryVars, attPrivate, namingDirectory, pc,
                 workUnits, workFault, call, ret, trace, ghostVars, crashed>>

\* The servant method running on thread t ends. On the main thread inside
\* perform_work this ends processRequest(false): an exception raised by the ORB
\* call leaves processRequest (it has no handler), otherwise it returns 0.
EndUpcall(t, fault) ==
  /\ ~crashed
  /\ t \in executing
  /\ executing' = executing \ {t}
  /\ event' = "end"
  /\ IF t = MainThread
       THEN /\ workFault' = fault
            /\ pc' = IF pc = "perform_work" \/ fault = "orb_exception" THEN "host" ELSE pc
            /\ ret' = IF fault = "orb_exception" THEN "exception"
                      ELSE IF pc = "perform_work" THEN "0" ELSE ret
       ELSE UNCHANGED <<workFault, pc, ret>>
  /\ UNCHANGED <<s_hppciServer, life, registryVars, attPrivate, namingDirectory,
                 pending, workUnits, call, trace, ghostVars, crashed>>

\* Another thread or a signal handler shuts the broker handle of object i
\* down (the written specification names this as the only way out of the
\* blocking mode): the ORB stops dispatching and drops what is queued.
ExternalShutdown(i) ==
  /\ ~crashed
  /\ life[i] = "alive"
  /\ attPrivate[i].orb = "up"
  /\ attPrivate' =
       [attPrivate EXCEPT ![i].orb = "down",
                          ![i].manager = IF @ = "none" THEN "none" ELSE "inactive"]
  /\ pending' = 0
  /\ event' = "shutdown"
  /\ UNCHANGED <<s_hppciServer, life, registryVars, namingDirectory, executing, pc,
                 workUnits, workFault, call, ret, trace, ghostVars, crashed>>

\* Faulty variant: the run loop returns although the ORB is still up.
RunReturn_while_up ==
  /\ ~crashed
  /\ pc = "orb_run"
  /\ MainThread \notin executing
  /\ pc' = "host"
  /\ ret' = "0"
  /\ event' = "return"
  /\ UNCHANGED <<s_hppciServer, life, registryVars, attPrivate, namingDirectory,
                 pending, executing, workUnits, workFault, call, trace, ghostVars,
                 crashed>>

\* orb->run() returns once the ORB has been shut down and no servant method
\* is running on the main thread; processRequest(true) then returns 0.
RunReturn ==
  /\ ~crashed
  /\ pc = "orb_run"
  /\ attPrivate[call.self].orb = "down"
  /\ MainThread \notin executing
  /\ pc' = "host"
  /\ ret' = "0"
  /\ event' = "return"
  /\ UNCHANGED <<s_hppciServer, life, registryVars, attPrivate, namingDirectory,
                 pending, executing, workUnits, workFault, call, trace, ghostVars,
                 crashed>>

\* ------------------------------------------------------- specifications
AllFaults(F) == {"none"} \cup F

\* The host constructs a single Coordinator (construct-once).
NoneConstructed == \A j \in Instances : life[j] = "unborn"

Construct == \E i \in Instances, fault \in AllFaults(InitFaults) : ChppciServer_ctor(i, fault)

\* Objects are interchangeable: the one constructed is the first of them.
FirstInstance == CHOOSE i \in Instances : \A j \in Instances : i <= j

ConstructOnce ==
  \E fault \in AllFaults(InitFaults) :
    NoneConstructed /\ ChppciServer_ctor(FirstInstance, fault)

Destroy == \E i \in Instances, ub \in UBOutcomes : ChppciServer_dtor(i, ub)

RegisterSteering ==
  \E i \in Instances, n \in Names, f \in FactoryArgs("steering") :
    AddSteeringMethodFactory(i, n, f)

RegisterDistance ==
  \E i \in Instances, n \in Names, f \in FactoryArgs("distance") :
    AddDistanceFactory(i, n, f)

ConstructSteering ==
  \E i \in Instances, n \in Names, o \in BOOLEAN : CreateSteeringMethod(i, n, o)

ConstructDistance ==
  \E i \in Instances, n \in Names, o \in BOOLEAN : CreateDistanceFunction(i, n, o)

\* Object lifetime and the singleton pointer, any number of objects alive.
NextLife == Construct \/ Destroy \/ GetInstance

SpecLife == Init /\ [][NextLife]_vars

\* The registries of one Coordinator.
NextRegistry ==
  \/ ConstructOnce
  \/ RegisterSteering
  \/ RegisterDistance
  \/ ConstructSteering
  \/ ConstructDistance
  \/ Destroy

SpecRegistry == Init /\ [][NextRegistry]_vars

LookupSteering == \E i \in Instances, n \in Names : SteeringMethodFactoryAlreadySet(i, n)

LookupDistance == \E i \in Instances, n \in Names : DistanceFactoryAlreadySet(i, n)

\* Registration, lookup and construction on the registries of one Coordinator.
NextLookup ==
  \/ ConstructOnce
  \/ RegisterSteering
  \/ RegisterDistance
  \/ LookupSteering
  \/ LookupDistance
  \/ ConstructSteering
  \/ ConstructDistance

SpecLookup == Init /\ [][NextLookup]_vars

Start ==
  \E i \in Instances, fault \in AllFaults(StartFaults), ub \in UBOutcomes :
    StartCorbaServer(i, fault, ub)

Process ==
  \E i \in Instances, loop \in BOOLEAN, ub \in UBOutcomes : ProcessRequest(i, loop, ub)

Dispatch == \E i \in Instances, t \in Threads : BeginUpcall(i, t)

Complete == \E t \in Threads, fault \in AllFaults(WorkFaults) : EndUpcall(t, fault)

\* The broker lifecycle of one Coordinator.
NextBroker ==
  \/ ConstructOnce
  \/ Start
  \/ Process
  \/ Arrive
  \/ Dispatch
  \/ Complete
  \/ Destroy

SpecBroker == Init /\ [][NextBroker]_vars

Shutdown == \E i \in Instances : ExternalShutdown(i)

\* The broker lifecycle of one Coordinator whose broker handle may be shut
\* down from outside the host thread.
NextBlocking ==
  \/ ConstructOnce
  \/ Start
  \/ Process
  \/ Arrive
  \/ Dispatch
  \/ Complete
  \/ Shutdown
  \/ RunReturn
  \/ Destroy

SpecBlocking == Init /\ [][NextBlocking]_vars

\* A servant method that was started ends, and orb->run() returns when the
\* ORB has been shut down.
SpecBlockingFair == SpecBlocking /\ WF_vars(Complete) /\ WF_vars(RunReturn)

\* Every operation, on every object.
Next ==
  \/ Construct
  \/ Destroy
  \/ GetInstance
  \/ RegisterSteering
  \/ RegisterDistance
  \/ ConstructSteering
  \/ ConstructDistance
  \/ Start
  \/ Process
  \/ Arrive
  \/ Dispatch
  \/ Complete
  \/ Shutdown
  \/ RunReturn
  \/ LookupSteering
  \/ LookupDistance

Spec == Init /\ [][Next]_vars

\* ------------------------------------------------------------------ claims
InitSteps ==
  <<"ORB_init", "resolve_initial_references", "create_thread_policy", "create_POA",
    "destroy", "createAndActivateServers">>

\* Position in InitSteps of the sub-step that `fault` makes fail.
StepOfFault(fault) ==
  CASE fault \in {"ORB_init_nil", "ORB_init"} -> 1
    [] fault = "resolve_initial_references" -> 2
    [] fault = "create_thread_policy" -> 3
    [] fault = "create_POA" -> 4
    [] fault = "destroy" -> 5
    [] OTHER -> 6

AfterCall(op) == event = "call" /\ call.op = op

\* C1: once a bootstrap step of a Coordinator has failed (any sub-step of
\* initORBandServers, naming-context creation, one of the three bindings or
\* manager activation), the Coordinator never is Serving, whatever the host
\* calls afterwards, and a startCorbaServer call into which a failure was
\* injected returns KD_ERROR.
C1_NeverServingAfterFailure ==
  /\ \A i \in Instances : bootFailed[i] => ~Serving(i)
  /\ (AfterCall("startCorbaServer") /\ call.fault # "none" /\ ~crashed) => ret = KD_ERROR

\* C2: in either registry, registering a name that is absent returns true and
\* adds exactly that entry (so two distinct absent names registered one after
\* the other both succeed); registering a name that is present, built-in names
\* included, returns false and leaves every entry as it was.
C2_RegisterStep(m, m2) ==
  IF call'.name \in DOMAIN m
    THEN ret' = "false" /\ m2 = m
    ELSE /\ ret' = "true"
         /\ DOMAIN m2 = DOMAIN m \cup {call'.name}
         /\ m2[call'.name] = call'.factory
         /\ \A n \in DOMAIN m : m2[n] = m[n]

C2_RegisterRejectsDuplicates ==
  [][/\ (event' = "call" /\ call'.op = "addSteeringMethodFactory") =>
          C2_RegisterStep(attMapSteeringMethodFactory[call'.self],
                          attMapSteeringMethodFactory'[call'.self])
     /\ (event' = "call" /\ call'.op = "addDistanceFactory") =>
          C2_RegisterStep(attMapDistanceFunctionFactory[call'.self],
                          attMapDistanceFunctionFactory'[call'.self])]_vars

\* A built-in name has just been rejected in a registry to which two distinct
\* new names were added before.
C2_Witness ==
  /\ AfterCall("addSteeringMethodFactory")
  /\ call.name \in BuiltinNames
  /\ ret = "false"
  /\ DOMAIN attMapSteeringMethodFactory[call.self] = Names

\* C3: construction by a registered name returns a strategy, for either
\* orientation and whatever factory argument the name was registered with;
\* construction by an unregistered name returns the absent value; neither
\* raises.
C3_RegisteredNameConstructs ==
  /\ AfterCall("createSteeringMethod") =>
       ret = IF call.name \in DOMAIN attMapSteeringMethodFactory[call.self]
               THEN "strategy" ELSE "absent"
  /\ AfterCall("createDistanceFunction") =>
       ret = IF call.name \in DOMAIN attMapDistanceFunctionFactory[call.self]
               THEN "strategy" ELSE "absent"

\* C4: once a Coordinator is destroyed, every factory its two registries
\* owned has been deleted exactly once.
OwnedFactories(i) ==
  (MapValues(attMapSteeringMethodFactory[i]) \cup MapValues(attMapDistanceFunctionFactory[i]))
    \ {NullFactory}

C4_EveryFactoryReleasedOnce ==
  \A i \in Instances :
    life[i] = "destroyed" => \A f \in OwnedFactories(i) : deleted[f] = 1

\* C5: getInstance returns the absent value exactly when no Coordinator is
\* alive, and otherwise returns a Coordinator that is alive.
C5_AccessorTracksLiveness ==
  /\ (getInstance = NULL) <=> (\A i \in Instances : life[i] # "alive")
  /\ getInstance # NULL => life[getInstance] = "alive"

\* C6: at most one servant method executes at any instant, however many calls
\* are queued and in both processRequest modes, and every service object that
\* is activated is activated in the child adapter, whose thread policy is the
\* single-thread one.
C6_OneUpcallAtATime ==
  /\ Cardinality(executing) <= 1
  /\ \A i \in Instances :
       /\ \A s \in Servants : attPrivate[i].servant[s].state # "root"
       /\ attPrivate[i].poa = "child" => attPrivate[i].policy = "MAIN_THREAD_MODEL"

\* A servant method is executing inside orb->run() while another call is queued.
C6_Witness ==
  /\ executing = {MainThread}
  /\ pc = "orb_run"
  /\ pending >= 1

\* C7: initORBandServers executes its sub-steps in order up to the first one
\* that fails and none after it; createAndActivateServers runs only when the
\* five broker sub-steps before it succeeded; the status handed back is KD_OK
\* without a failure and KD_ERROR for every failure; nothing is thrown.
C7_InitHaltsAtFirstFailure ==
  AfterCall("ChppciServer") =>
    /\ trace = SubSeq(InitSteps, 1, StepOfFault(call.fault))
    /\ initStatus[call.self] = IF call.fault = "none" THEN KD_OK ELSE KD_ERROR
    /\ StepOfFault(call.fault) < 4 => attPrivate[call.self].poa = "nil"
    /\ (call.fault # "none" /\ StepOfFault(call.fault) < 6) =>
         \A s \in Servants : attPrivate[call.self].servant[s].state = "unset"
    /\ ret = "void"
    /\ ~crashed

\* initORBandServers has just failed at the destruction of the policy object.
C7_Witness ==
  /\ AfterCall("ChppciServer")
  /\ call.fault = "destroy"
  /\ initStatus[call.self] = KD_ERROR
  /\ attPrivate[call.self].poa = "child"

\* C8: processRequest(false) on a live broker handle: without pending work it
\* returns 0 at once and changes nothing of the Coordinator; with pending work
\* it takes exactly one call off the queue, and returns after that one unit
\* without taking another.
CoordinatorState ==
  <<s_hppciServer, life, attPrivate, attMapSteeringMethodFactory,
    attMapDistanceFunctionFactory, deleted, namingDirectory, pending, executing>>

C8_PollStep ==
  /\ (event' = "call" /\ call'.op = "processRequest" /\ ~call'.flag
        /\ attPrivate[call'.self].orb # "nil") =>
       IF work_pending(call'.self)
         THEN /\ pc' = "perform_work"
              /\ pending' = pending - 1
              /\ workUnits' = 1
              /\ executing' = executing \cup {MainThread}
         ELSE /\ pc' = "host"
              /\ ret' = "0"
              /\ workUnits' = 0
              /\ CoordinatorState' = CoordinatorState
  /\ (event' = "end" /\ pc = "perform_work") =>
       /\ pc' = "host"
       /\ workUnits' = 1
       /\ pending' = pending
       /\ ret' \in {"0", "exception"}

C8_PollingDoesOneUnit == [][C8_PollStep]_vars

\* A polling call has returned 0 after one unit of work with a call still queued.
C8_Witness ==
  /\ event = "end"
  /\ call.op = "processRequest"
  /\ ~call.flag
  /\ pc = "host"
  /\ ret = "0"
  /\ workUnits = 1
  /\ pending >= 1

\* C9: when a fault was raised while processRequest dispatched a call,
\* processRequest has handed its caller the failure status and the Coordinator
\* is still Serving.
C9_FaultReportedAsStatus ==
  (call.op = "processRequest" /\ event = "end" /\ pc = "host" /\ workFault # "none") =>
    /\ ret = KD_ERROR
    /\ Serving(call.self)

\* C10: right after construction both registries hold exactly the names
\* "linear", "rs" and "flic".
C10_BuiltinNamesAfterConstruction ==
  AfterCall("ChppciServer") =>
    /\ DOMAIN attMapSteeringMethodFactory[call.self] = {"linear", "rs", "flic"}
    /\ DOMAIN attMapDistanceFunctionFactory[call.self] = {"linear", "rs", "flic"}

\* A Coordinator has just been constructed (its broker bootstrap succeeded).
C10_Witness ==
  /\ AfterCall("ChppciServer")
  /\ call.fault = "none"
  /\ life[call.self] = "alive"
  /\ Cardinality(DOMAIN attMapSteeringMethodFactory[call.self]) = 3

\* C11: whenever the host thread is inside the broker (the run loop of
\* processRequest(true) or a unit of dispatch work of processRequest(false)),
\* the Coordinator is Serving: initialization, binding and manager activation
\* have succeeded and it has not been shut down; and no processRequest call
\* ends in a crash.
C11_ProcessOnlyWhileServing ==
  /\ pc \in {"orb_run", "perform_work"} => Serving(call.self)
  /\ call.op = "processRequest" => ret # "crash"

\* C12: a call on the steering-method registry leaves the distance-function
\* registry as it was and its result depends on the steering-method registry
\* alone, and the other way round.
SteeringOps == {"addSteeringMethodFactory", "createSteeringMethod"}
DistanceOps == {"addDistanceFactory", "createDistanceFunction"}

C12_OwnRegistryDecides(m) ==
  /\ call'.op \in {"addSteeringMethodFactory", "addDistanceFactory"} =>
       ret' = IF call'.name \in DOMAIN m THEN "false" ELSE "true"
  /\ call'.op \in {"createSteeringMethod", "createDistanceFunction"} =>
       IF call'.name \in DOMAIN m
         THEN ret' \in MakeResults(m[call'.name], call'.flag)
         ELSE ret' = "absent"

C12_Step ==
  /\ (event' = "call" /\ call'.op \in SteeringOps) =>
       /\ attMapDistanceFunctionFactory' = attMapDistanceFunctionFactory
       /\ C12_OwnRegistryDecides(attMapSteeringMethodFactory[call'.self])
  /\ (event' = "call" /\ call'.op \in DistanceOps) =>
       /\ attMapSteeringMethodFactory' = attMapSteeringMethodFactory
       /\ C12_OwnRegistryDecides(attMapDistanceFunctionFactory[call'.self])

C12_RegistriesIndependent == [][C12_Step]_vars

\* A name held by the steering-method registry only has just been accepted by
\* the distance-function registry.
C12_Witness ==
  /\ AfterCall("addDistanceFactory")
  /\ call.name \notin BuiltinNames
  /\ ret = "true"
  /\ call.name \in DOMAIN attMapSteeringMethodFactory[call.self]
  /\ attMapSteeringMethodFactory[call.self][call.name]
       # attMapDistanceFunctionFactory[call.self][call.name]

\* C13: a processRequest(true) call on a live broker handle has returned 0
\* only if the broker handle has been shut down, and once the handle is shut
\* down while the host thread is in the run loop, the call does return.
BlockingReturned ==
  /\ call.op = "processRequest"
  /\ call.flag
  /\ pc = "host"
  /\ ret = "0"
  /\ life[call.self] = "alive"
  /\ attPrivate[call.self].orb # "nil"

InRunAfterShutdown == pc = "orb_run" /\ attPrivate[call.self].orb = "down"

C13_BlockingReturnsOnlyOnShutdown ==
  /\ [](BlockingReturned => attPrivate[call.self].orb = "down")
  /\ (InRunAfterShutdown ~> pc = "host")

\* The run loop has returned after an external shutdown.
C13_Witness ==
  /\ BlockingReturned
  /\ event = "return"
  /\ attPrivate[call.self].orb = "down"

\* C14: a startCorbaServer call whose service objects are all live attempts
\* its steps in the order _this, naming context, Robot, Obstacle, Problem,
\* manager activation and stops at the first one that fails, returning
\* KD_ERROR; it releases the local reference of exactly the service objects
\* whose bind succeeded in this call, and it activates the adapter manager
\* only when every step succeeded.
StartSteps ==
  <<"_this", "createHppContext", "bind_Robot", "bind_Obstacle", "bind_Problem",
    "activate">>

BindStepOf(s) ==
  CASE s = "robotServant" -> "bind_Robot"
    [] s = "obstacleServant" -> "bind_Obstacle"
    [] s = "problemServant" -> "bind_Problem"

BoundNameOf(s) ==
  CASE s = "robotServant" -> "Robot"
    [] s = "obstacleServant" -> "Obstacle"
    [] s = "problemServant" -> "Problem"

C14_BindSucceeded(s) ==
  /\ \E k \in DOMAIN trace' : trace'[k] = BindStepOf(s)
  /\ call'.fault # BindStepOf(s)

C14_Step ==
  ( /\ event' = "call"
    /\ call'.op = "startCorbaServer"
    /\ ~UnsetServants(attPrivate[call'.self])
    /\ ~FreedServants(attPrivate[call'.self]) )
  =>
  LET i == call'.self
      n == Len(trace')
  IN
  /\ n \in 1..Len(StartSteps)
  /\ trace' = SubSeq(StartSteps, 1, n)
  /\ ret' = IF call'.fault = "none" THEN KD_OK ELSE KD_ERROR
  /\ call'.fault # "none" => trace'[n] = call'.fault
  /\ call'.fault = "none" => n = Len(StartSteps)
  /\ \A s \in Servants :
       /\ attPrivate'[i].servant[s].refs =
            attPrivate[i].servant[s].refs - (IF C14_BindSucceeded(s) THEN 1 ELSE 0)
       /\ C14_BindSucceeded(s) => BoundNameOf(s) \in namingDirectory'.bound
       /\ ~C14_BindSucceeded(s) =>
            (BoundNameOf(s) \in namingDirectory'.bound
               <=> BoundNameOf(s) \in namingDirectory.bound)
  /\ attPrivate'[i].manager = "active"
       <=> (ret' = KD_OK \/ attPrivate[i].manager = "active")

C14_BindOrderAndRelease == [][C14_Step]_vars

\* The Obstacle bind failed after the Robot bind succeeded.
C14_Witness ==
  /\ AfterCall("startCorbaServer")
  /\ call.fault = "bind_Obstacle"
  /\ ret = KD_ERROR
  /\ attPrivate[call.self].servant["robotServant"].refs = 1
  /\ attPrivate[call.self].servant["obstacleServant"].refs = 2
  /\ attPrivate[call.self].manager # "active"

\* C15: the local reference of a service object is released at most once:
\* a service object that is activated in the domain keeps the reference the
\* adapter holds.
C15_ReleasedAtMostOnce ==
  \A i \in Instances :
    life[i] = "alive" =>
      \A s \in Servants :
        attPrivate[i].servant[s].state = "child" => attPrivate[i].servant[s].refs >= 1

\* C16: a lookup or a construction leaves both registries as they were, for
\* registered and unregistered names alike; a construction asked for a name
\* that is not registered reports it absent and the name is still not
\* registered afterwards, so that a later registration of it is accepted.
LookupOps ==
  {"steeringMethodFactoryAlreadySet", "distanceFactoryAlreadySet",
   "createSteeringMethod", "createDistanceFunction"}

C16_Step ==
  /\ (event' = "call" /\ call'.op \in LookupOps) =>
       /\ attMapSteeringMethodFactory' = attMapSteeringMethodFactory
       /\ attMapDistanceFunctionFactory' = attMapDistanceFunctionFactory
       /\ deleted' = deleted
  /\ ( /\ event' = "call"
       /\ call'.op = "createSteeringMethod"
       /\ call'.name \notin DOMAIN attMapSteeringMethodFactory[call'.self] ) =>
       /\ ret' = "absent"
       /\ call'.name \notin DOMAIN attMapSteeringMethodFactory'[call'.self]
  /\ ( /\ event' = "call"
       /\ call'.op = "createDistanceFunction"
       /\ call'.name \notin DOMAIN attMapDistanceFunctionFactory[call'.self] ) =>
       /\ ret' = "absent"
       /\ call'.name \notin DOMAIN attMapDistanceFunctionFactory'[call'.self]

C16_LookupLeavesRegistries == [][C16_Step]_vars

\* A construction was asked for a name that is not registered.
C16_Witness ==
  /\ AfterCall("createSteeringMethod")
  /\ ret = "absent"
  /\ call.name \notin DOMAIN attMapSteeringMethodFactory[call.self]

\* C17: the destructor of a Coordinator whose broker handle was never
\* acquired does not signal shutdown through that handle, and the destructor
\* deactivates no service object that was never activated.
C17_Step ==
  (event' = "call" /\ call'.op = "~ChppciServer") =>
    LET p == attPrivate[call'.self] IN
    /\ p.orb = "nil" => \A k \in DOMAIN trace' : trace'[k] # "shutdown"
    /\ \A s \in Servants :
         p.servant[s].state = "unset" =>
           attPrivate'[call'.self].servant[s].state = "unset"

C17_DestructorUsesOnlyAcquired == [][C17_Step]_vars

\* C18: the class-level pointer is never left pointing at a destroyed
\* Coordinator: getInstance is absent or alive after every completed
\* construction and destruction.
C18_AccessorNeverDangles ==
  getInstance # NULL => life[getInstance] = "alive"

\* One Coordinator was destroyed and the accessor still returns another one.
C18_Witness ==
  /\ AfterCall("ChppciServer")
  /\ \E i \in Instances : life[i] = "destroyed"
  /\ getInstance # NULL
  /\ life[getInstance] = "alive"

====
